---- MODULE Spec2Model ----
(***************************************************************************)
(* Model of the UI-tree extraction and search engine of                    *)
(* desktop_server.py: get_window_text_content, _find_element /             *)
(* find_element and click_element, run against an external accessibility   *)
(* tree whose property reads may raise.                                    *)
(*                                                                         *)
(* A node of the accessibility tree is identified by a number; a place in  *)
(* a traversal is a path: the sequence of node numbers from the node the   *)
(* traversal started at down to the node visited.  Every emitted entry     *)
(* carries the path it was produced at in the field src, which is not      *)
(* part of the program's output and is there so that properties can speak  *)
(* about "the node an entry was emitted for".                              *)
(***************************************************************************)
EXTENDS Integers, Sequences, FiniteSets, TLC

VARIABLES tree, op, args, env, out, clicks, probe

vars == <<tree, op, args, env, out, clicks, probe>>

(***************************************************************************)
(* Bounds of the model.                                                    *)
(***************************************************************************)
\* number of nodes of the chain hanging below the active window; the last
\* one is its own child, which stands for a subtree of unbounded depth
ChainLen == 7
\* largest max_depth a caller passes (the smallest is -1)
MaxDepthArg == 6

(***************************************************************************)
(* Program constants.                                                      *)
(***************************************************************************)
HardDepthCap == 5
SearchDepthLimit == 6
RootStartDepth == 2
TextLimit == 200

Min(a, b) == IF a < b THEN a ELSE b

\* the types for which a clickable point is computed (line 70)
InteractiveTypes ==
  {"Button", "Edit", "ListItem", "MenuItem", "TabItem", "Link", "CheckBox", "RadioButton"}

(***************************************************************************)
(* Strings are sequences of one-character strings.                         *)
(***************************************************************************)
\* str.lower() on one character of the alphabet used by the model
LowerChar(c) ==
  CASE c = "O" -> "o"
    [] c = "K" -> "k"
    [] c = "N" -> "n"
    [] OTHER -> c

lower(s) == [i \in 1..Len(s) |-> LowerChar(s[i])]

\* needle in hay (Python's substring test)
Contains(needle, hay) ==
  \E i \in 0..(Len(hay) - Len(needle)) : SubSeq(hay, i + 1, i + Len(needle)) = needle

\* s[:n]
Slice(s, n) == SubSeq(s, 1, Min(n, Len(s)))

(***************************************************************************)
(* The accessibility tree (external, read-only).                           *)
(***************************************************************************)
Desktop == 0
Window == 1
Other == 2
OtherChild == 3
FirstChild == 4
LastChild == 5
Chain(i) == 5 + i

NodeIds == 0..(5 + ChainLen)

\* the shape: the desktop holds the active window and another window; the
\* active window holds a leaf, the chain and another leaf, in this order
ShapeKids(n) ==
  CASE n = Desktop -> <<Window, Other>>
    [] n = Window -> <<FirstChild, Chain(1), LastChild>>
    [] n = Other -> <<OtherChild>>
    [] n \in {OtherChild, FirstChild, LastChild} -> <<>>
    [] n = Chain(ChainLen) -> <<n>>
    [] OTHER -> <<n + 1>>

Rect(l, t, r, b) == [left |-> l, top |-> t, right |-> r, bottom |-> b]
width(rect) == rect.right - rect.left
height(rect) == rect.bottom - rect.top

NoPattern == [present |-> FALSE, Value |-> <<>>]
Pattern(v) == [present |-> TRUE, Value |-> v]

\* a node: what each property read returns, the reads that raise (fails),
\* and which of the successive reads of BoundingRectangle within one visit
\* raise (rectFails)
Kind(name, type, rect, vp, fails, rectFails) ==
  [Name |-> name, ControlTypeName |-> type, BoundingRectangle |-> rect,
   ValuePattern |-> vp, fails |-> fails, rectFails |-> rectFails]

Filler == Kind(<<>>, "Pane", Rect(0, 0, 10, 10), NoPattern, {}, {})
Label == Kind(<<"O", "K">>, "Text", Rect(-5, -3, -2, -2), NoPattern, {}, {})
Btn == Kind(<<"O", "k", "!">>, "Button", Rect(-7, 2, 0, 7), NoPattern, {}, {})
Plain == Kind(<<"n", "o">>, "Text", Rect(3, 3, 4, 5), NoPattern, {}, {})
ZeroBtn == Kind(<<"o", "k">>, "Button", Rect(4, 4, 4, 9), NoPattern, {}, {})
BareBtn == Kind(<<>>, "Button", Rect(1, 1, 3, 4), NoPattern, {}, {})
EditVal == Kind(<<>>, "Edit", Rect(2, 2, 9, 3), Pattern(<<"h", "i">>), {}, {})
EditEmpty == Kind(<<>>, "Edit", Rect(2, 2, 9, 3), Pattern(<<>>), {}, {})
EditNoPat == Kind(<<>>, "Edit", Rect(2, 2, 9, 3), NoPattern, {}, {})
EditRaise == Kind(<<>>, "Edit", Rect(2, 2, 9, 3), Pattern(<<"h", "i">>), {"GetValuePattern"}, {})
NameRaise == Kind(<<"o", "k">>, "Button", Rect(1, 1, 3, 4), NoPattern, {"Name"}, {})
TypeRaise == Kind(<<"o", "k">>, "Button", Rect(1, 1, 3, 4), NoPattern, {"ControlTypeName"}, {})
KidsRaise == Kind(<<"o", "k">>, "Text", Rect(1, 1, 3, 4), NoPattern, {"GetChildren"}, {})
NoRect == Kind(<<"o", "k">>, "Button", Rect(1, 1, 3, 4), NoPattern, {}, {1, 2})
FlakyZero == Kind(<<"o", "k">>, "Button", Rect(6, 1, 9, 1), NoPattern, {}, {1})

Kinds ==
  {Filler, Label, Btn, Plain, ZeroBtn, BareBtn, EditVal, EditEmpty, EditNoPat,
   EditRaise, NameRaise, TypeRaise, KidsRaise, NoRect, FlakyZero}

BaseKinds == {Filler, Label}
SecondSpots == {FirstChild, OtherChild}
SecondKinds == {Label, Btn}

\* every node is of the base kind, but for one node of any kind and for an
\* optional second one
Trees ==
  { [attrs |-> [n \in NodeIds |->
                  IF n = n1 THEN k1
                  ELSE IF n = s[1] THEN s[2]
                  ELSE base],
     kids |-> [n \in NodeIds |-> ShapeKids(n)]] :
    <<base, n1, k1, s>> \in
      BaseKinds \X NodeIds \X Kinds \X ({<<-1, Filler>>} \cup (SecondSpots \X SecondKinds)) }

(***************************************************************************)
(* Helpers on sequences and optional values.  An optional value is a set   *)
(* with at most one element: {} is Python's None / missing key.            *)
(***************************************************************************)
The(S) == CHOOSE x \in S : TRUE

LastOf(path) == path[Len(path)]

\* rect.left + rect.width() // 2, rect.top + rect.height() // 2
Center(rect) ==
  [x |-> rect.left + (width(rect) \div 2), y |-> rect.top + (height(rect) \div 2)]

(***************************************************************************)
(* get_window_text_content.get_element_info (lines 41-99).                 *)
(* Returns the node's info (or none) and the set of paths whose node had   *)
(* a property read.                                                        *)
(***************************************************************************)
\* variant: a child that yields nothing discards the children gathered so far
AddChild_Reset(acc, r) ==
  [children |-> IF r.info # {} THEN Append(acc.children, The(r.info)) ELSE <<>>,
   visited |-> acc.visited \cup r.visited]

\* if child_info: children.append(child_info)   (lines 84-86)
AddChild(acc, r) ==
  [children |-> IF r.info # {} THEN Append(acc.children, The(r.info)) ELSE acc.children,
   visited |-> acc.visited \cup r.visited]

\* variant: a clickable point alone makes a node meaningful
Meaningful_OrClickable(info) ==
  info.text # <<>> \/ info.value # <<>> \/ info.children # <<>> \/ info.clickable_at # {}

\* if 'text' in info or 'value' in info or 'children' in info   (line 93)
Meaningful(info) == info.text # <<>> \/ info.value # <<>> \/ info.children # <<>>

RECURSIVE get_element_info(_, _, _, _)
RECURSIVE each_child(_, _, _, _, _, _)

\* for child in element.GetChildren(): ...   (lines 83-86), kids being the
\* children still to come and acc what the loop has gathered
each_child(t, path, kids, depth, max_depth, acc) ==
  IF kids = <<>> THEN acc
  ELSE each_child(t, path, Tail(kids), depth, max_depth,
                  AddChild(acc, get_element_info(t, Append(path, Head(kids)),
                                                 depth + 1, max_depth)))

get_element_info(t, path, depth, max_depth) ==
  IF depth > max_depth THEN [info |-> {}, visited |-> {}]
  ELSE
    LET element == t.attrs[LastOf(path)]
        rect == element.BoundingRectangle
        \* lines 47-52: the read may raise, which is ignored
        invisible == 1 \notin element.rectFails /\ (width(rect) = 0 \/ height(rect) = 0)
        \* lines 55-56: not guarded, a raise leaves through line 98
        aborted == "Name" \in element.fails \/ "ControlTypeName" \in element.fails
        name == element.Name
        control_type == element.ControlTypeName
        text == IF name # <<>> THEN Slice(name, TextLimit) ELSE <<>>
        value ==
          IF control_type = "Edit" /\ "GetValuePattern" \notin element.fails
             /\ element.ValuePattern.present /\ element.ValuePattern.Value # <<>>
          THEN Slice(element.ValuePattern.Value, TextLimit)
          ELSE <<>>
        clickable_at ==
          IF control_type \in InteractiveTypes /\ 2 \notin element.rectFails
          THEN {Center(rect)}
          ELSE {}
        \* lines 80-90: a raise of GetChildren leaves children empty
        descend == depth < max_depth /\ "GetChildren" \notin element.fails
        loop == each_child(t, path, IF descend THEN t.kids[LastOf(path)] ELSE <<>>,
                           depth, max_depth, [children |-> <<>>, visited |-> {path}])
        info == [type |-> control_type, text |-> text, value |-> value,
                 clickable_at |-> clickable_at, children |-> loop.children, src |-> path]
    IN IF invisible \/ aborted THEN [info |-> {}, visited |-> {path}]
       ELSE IF Meaningful(info) THEN [info |-> {info}, visited |-> loop.visited]
       ELSE [info |-> {}, visited |-> loop.visited]

\* variant: the requested depth is used as it is
ClampDepth_Unclamped(d) == d

\* max_depth = min(max_depth, 5)   (line 39)
ClampDepth(d) == Min(d, HardDepthCap)

(***************************************************************************)
(* get_window_text_content (lines 35-111).  fg is what                     *)
(* GetForegroundControl does ("window", "none" or "raise"); titleRaises    *)
(* says whether the read of window.Name at line 107 raises.                *)
(***************************************************************************)
get_window_text_content(t, d, fg, titleRaises) ==
  LET max_depth == ClampDepth(d)
      walk == get_element_info(t, <<Window>>, 0, max_depth)
  IN IF fg = "raise" THEN [result |-> [kind |-> "error", error |-> "exception"], visited |-> {}]
     ELSE IF fg = "none"
       THEN [result |-> [kind |-> "error", error |-> "No active window"], visited |-> {}]
     ELSE IF titleRaises
       THEN [result |-> [kind |-> "error", error |-> "exception"], visited |-> {}]
     ELSE [result |-> [kind |-> "ok", title |-> t.attrs[Window].Name, content |-> walk.info],
           visited |-> walk.visited]

(***************************************************************************)
(* _find_element.search_element (lines 161-185).  Returns the entries      *)
(* appended to results, in order, and the set of paths whose node had a    *)
(* property read.                                                          *)
(***************************************************************************)
\* variant: the walk goes one level further
TooDeep_OneMore(depth) == depth > SearchDepthLimit + 1

\* if depth > 6: return   (line 162)
TooDeep(depth) == depth > SearchDepthLimit

\* lines 169-170
Matches(text_lower, control_type, name, elem_type) ==
  /\ Contains(text_lower, lower(name))
  /\ (control_type = "None" \/ elem_type = control_type)

\* what one call of search_element adds to what the walk has gathered
Gather(acc, r) ==
  [results |-> acc.results \o r.results, visited |-> acc.visited \cup r.visited]

RECURSIVE search_element(_, _, _, _, _)
RECURSIVE each_searched(_, _, _, _, _, _, _)

\* for child in element.GetChildren(): search_element(child, depth + 1)
\* (lines 182-183), kids being the children still to come
each_searched(t, path, kids, depth, text_lower, control_type, acc) ==
  IF kids = <<>> THEN acc
  ELSE each_searched(t, path, Tail(kids), depth, text_lower, control_type,
                     Gather(acc, search_element(t, Append(path, Head(kids)), depth + 1,
                                                text_lower, control_type)))

search_element(t, path, depth, text_lower, control_type) ==
  IF TooDeep(depth) THEN [results |-> <<>>, visited |-> {}]
  ELSE
    LET element == t.attrs[LastOf(path)]
        \* lines 166-167: a raise leaves through line 184 before anything is appended
        aborted == "Name" \in element.fails \/ "ControlTypeName" \in element.fails
        name == element.Name
        elem_type == element.ControlTypeName
        rect == element.BoundingRectangle
        own ==
          IF Matches(text_lower, control_type, name, elem_type)
          THEN IF 1 \notin element.rectFails
               THEN <<[kind |-> "match", text |-> Slice(name, TextLimit), type |-> elem_type,
                       click |-> {Center(rect)}, src |-> path]>>
               ELSE <<[kind |-> "match", text |-> Slice(name, TextLimit), type |-> elem_type,
                       click |-> {}, src |-> path]>>
          ELSE <<>>
        \* line 182: a raise of GetChildren leaves through line 184, after own
        kids == IF "GetChildren" \in element.fails THEN <<>> ELSE t.kids[LastOf(path)]
    IN IF aborted THEN [results |-> <<>>, visited |-> {path}]
       ELSE each_searched(t, path, kids, depth, text_lower, control_type,
                          [results |-> own, visited |-> {path}])

\* variant: the desktop root is searched whatever the first phase found
NeedsFallback_Always(results) == TRUE

\* if not results:   (line 194)
NeedsFallback(results) == results = <<>>

NotFoundMessage(text) ==
  [kind |-> "message",
   message |-> <<"No elements found containing '">> \o text \o <<"'">>]

\* variant: the list of matches is returned as it is, empty or not
Answer_Bare(results, text) == results

\* return results if results else [{"message": ...}]   (line 197)
Answer(results, text) == IF results # <<>> THEN results ELSE <<NotFoundMessage(text)>>

(***************************************************************************)
(* _find_element (lines 156-199) and find_element (lines 202-211).  fg is  *)
(* what GetForegroundControl does, root what GetRootControl does ("ok" or  *)
(* "raise").  phase1 is the value of results when line 194 is reached.     *)
(***************************************************************************)
_find_element(t, text, control_type, fg, root) ==
  LET text_lower == lower(text)
      first == IF fg = "window"
               THEN search_element(t, <<Window>>, 0, text_lower, control_type)
               ELSE [results |-> <<>>, visited |-> {}]
      second == search_element(t, <<Desktop>>, RootStartDepth, text_lower, control_type)
      failed == [kind |-> "error", error |-> "exception"]
  IN IF fg = "raise"
     THEN [result |-> <<failed>>, phase1 |-> <<>>, visited |-> {}, visited2 |-> {},
           rootCalls |-> 0]
     ELSE IF ~NeedsFallback(first.results)
     THEN [result |-> Answer(first.results, text), phase1 |-> first.results,
           visited |-> first.visited, visited2 |-> {}, rootCalls |-> 0]
     ELSE IF root = "raise"
     THEN [result |-> <<failed>>, phase1 |-> first.results, visited |-> first.visited,
           visited2 |-> {}, rootCalls |-> 1]
     ELSE [result |-> Answer(first.results \o second.results, text), phase1 |-> first.results,
           visited |-> first.visited, visited2 |-> second.visited, rootCalls |-> 1]

find_element(t, text, control_type, fg, root) ==
  _find_element(t, text, control_type, fg, root)

(***************************************************************************)
(* click_element (lines 214-235).  clickRaises says whether                *)
(* pyautogui.click raises.                                                 *)
(***************************************************************************)
\* variant: the first entry that has coordinates is clicked, wherever it is
Target_AnyClickable(elements) ==
  LET able == SelectSeq(elements, LAMBDA e : e.kind = "match" /\ e.click # {})
  IN IF able # <<>> THEN {able[1]} ELSE {}

\* if elements and 'click_x' in elements[0]   (line 225)
Target(elements) ==
  IF elements # <<>> /\ elements[1].kind = "match" /\ elements[1].click # {}
  THEN {elements[1]}
  ELSE {}

click_element(t, text, control_type, fg, root, clickRaises) ==
  LET found == _find_element(t, text, control_type, fg, root)
      elements == found.result
      target == Target(elements)
      at == The(The(target).click)
  IN IF target # {}
     THEN [result |-> IF clickRaises THEN [kind |-> "click_error"]
                      ELSE [kind |-> "clicked", text |-> The(target).text,
                            x |-> at.x, y |-> at.y],
           clicks |-> <<at>>, found |-> found]
     ELSE IF elements # <<>> /\ elements[1].kind = "error"
     THEN [result |-> [kind |-> "error"], clicks |-> <<>>, found |-> found]
     ELSE [result |-> [kind |-> "not_found", text |-> text], clicks |-> <<>>,
           found |-> found]

(***************************************************************************)
(* The state machine: the server is idle or has just answered one call.    *)
(***************************************************************************)
DepthArgs == (0 - 1)..MaxDepthArg
FgOutcomes == {"window", "none", "raise"}
Queries == {<<"o", "K">>, <<"N", "o">>}
TypeFilters == {"None", "Button"}

NoArgs == [max_depth |-> 0, text |-> <<>>, control_type |-> "None"]
NoEnv == [fg |-> "unused", title |-> "unused", root |-> "unused", click |-> "unused"]
NoProbe == [visited |-> {}, visited2 |-> {}, phase1 |-> <<>>, rootCalls |-> 0, elements |-> <<>>]

Init ==
  /\ tree \in Trees
  /\ op = "idle"
  /\ args = NoArgs
  /\ env = NoEnv
  /\ out = <<>>
  /\ clicks = <<>>
  /\ probe = NoProbe

GetWindowTextContent ==
  /\ op = "idle"
  /\ \E d \in DepthArgs, fg \in FgOutcomes :
       \E titleRaises \in (IF fg = "window" THEN BOOLEAN ELSE {FALSE}) :
         LET r == get_window_text_content(tree, d, fg, titleRaises)
         IN /\ op' = "get_window_text_content"
            /\ args' = [NoArgs EXCEPT !.max_depth = d]
            /\ env' = [NoEnv EXCEPT !.fg = fg,
                         !.title = IF fg # "window" THEN "unused"
                                   ELSE IF titleRaises THEN "raise" ELSE "ok"]
            /\ out' = r.result
            /\ probe' = [NoProbe EXCEPT !.visited = r.visited]
            /\ UNCHANGED <<tree, clicks>>

\* what GetRootControl can do in a call: it is called only at line 195
RootOutcomes(t, text, control_type, fg) ==
  IF _find_element(t, text, control_type, fg, "ok").rootCalls = 0
  THEN {"unused"}
  ELSE {"ok", "raise"}

FindElement ==
  /\ op = "idle"
  /\ \E text \in Queries, control_type \in TypeFilters, fg \in FgOutcomes :
       \E root \in RootOutcomes(tree, text, control_type, fg) :
         LET r == find_element(tree, text, control_type, fg, root)
         IN /\ op' = "find_element"
            /\ args' = [NoArgs EXCEPT !.text = text, !.control_type = control_type]
            /\ env' = [NoEnv EXCEPT !.fg = fg, !.root = root]
            /\ out' = r.result
            /\ probe' = [NoProbe EXCEPT !.visited = r.visited, !.visited2 = r.visited2,
                           !.phase1 = r.phase1, !.rootCalls = r.rootCalls,
                           !.elements = r.result]
            /\ UNCHANGED <<tree, clicks>>

ClickElement ==
  /\ op = "idle"
  /\ \E text \in Queries, control_type \in TypeFilters, fg \in FgOutcomes :
       \E root \in RootOutcomes(tree, text, control_type, fg) :
         \E clickRaises \in
              (IF Target(_find_element(tree, text, control_type, fg, root).result) # {}
               THEN BOOLEAN ELSE {FALSE}) :
           LET r == click_element(tree, text, control_type, fg, root, clickRaises)
           IN /\ op' = "click_element"
              /\ args' = [NoArgs EXCEPT !.text = text, !.control_type = control_type]
              /\ env' = [NoEnv EXCEPT !.fg = fg, !.root = root,
                           !.click = IF r.clicks = <<>> THEN "unused"
                                     ELSE IF clickRaises THEN "raise" ELSE "ok"]
              /\ out' = r.result
              /\ clicks' = r.clicks
              /\ probe' = [NoProbe EXCEPT !.visited = r.found.visited,
                             !.visited2 = r.found.visited2, !.phase1 = r.found.phase1,
                             !.rootCalls = r.found.rootCalls, !.elements = r.found.result]
              /\ UNCHANGED tree

\* the answer is handed to the caller; nothing is kept between calls
Respond ==
  /\ op # "idle"
  /\ op' = "idle"
  /\ args' = NoArgs
  /\ env' = NoEnv
  /\ out' = <<>>
  /\ clicks' = <<>>
  /\ probe' = NoProbe
  /\ UNCHANGED tree

Next ==
  \/ GetWindowTextContent
  \/ FindElement
  \/ ClickElement
  \/ Respond

Spec == Init /\ [][Next]_vars

(***************************************************************************)
(* Vocabulary of the properties.                                           *)
(***************************************************************************)
Extracting == op = "get_window_text_content"
Searching == op \in {"find_element", "click_element"}

\* levels between the node a traversal started at and the node at path
Depth(path) == Len(path) - 1

NodeAt(path) == tree.attrs[LastOf(path)]

ZeroArea(node) ==
  width(node.BoundingRectangle) = 0 \/ height(node.BoundingRectangle) = 0

Inside(rect, point) ==
  /\ rect.left <= point.x /\ point.x < rect.left + width(rect)
  /\ rect.top <= point.y /\ point.y < rect.top + height(rect)

RECURSIVE InfosOf(_)
InfosOf(info) ==
  {info} \cup UNION {InfosOf(info.children[i]) : i \in 1..Len(info.children)}

\* the TreeNodes of the answer of get_window_text_content
Emitted ==
  IF Extracting /\ out.kind = "ok" /\ out.content # {} THEN InfosOf(The(out.content)) ELSE {}

IsEmitted(path) == \E i \in Emitted : i.src = path

\* the SearchMatches the search engine returned
Found ==
  IF Searching
  THEN {probe.elements[i] : i \in {j \in 1..Len(probe.elements) : probe.elements[j].kind = "match"}}
  ELSE {}

\* the reads of a node that end its processing when they raise
Failing(node) == "Name" \in node.fails \/ "ControlTypeName" \in node.fails

\* the zero-area test of lines 47-50 saw a zero-area rectangle
SeenZero(node) == 1 \notin node.rectFails /\ ZeroArea(node)

HasValue(node) ==
  /\ node.ControlTypeName = "Edit"
  /\ "GetValuePattern" \notin node.fails
  /\ node.ValuePattern.present
  /\ node.ValuePattern.Value # <<>>

\* significance as the spec words it: a name, an Edit's value, or a child
\* that remains in the output
Significant(path) ==
  \/ NodeAt(path).Name # <<>>
  \/ HasValue(NodeAt(path))
  \/ \E i \in 1..Len(tree.kids[LastOf(path)]) :
       IsEmitted(Append(path, tree.kids[LastOf(path)][i]))

(***************************************************************************)
(* C1.  Whatever max_depth is requested, no emitted TreeNode and no        *)
(* visited node lies deeper below the active window than min(max_depth, 5).*)
(***************************************************************************)
C1_DepthCapped ==
  Extracting =>
    /\ \A i \in Emitted : Depth(i.src) <= Min(args.max_depth, HardDepthCap)
    /\ \A p \in probe.visited : Depth(p) <= Min(args.max_depth, HardDepthCap)

\* asked for more than 5 levels, a node at level 5 is emitted and its named
\* child at level 6 is not
C1_Witness ==
  /\ Extracting
  /\ args.max_depth > HardDepthCap
  /\ \E i \in Emitted :
       /\ Depth(i.src) = HardDepthCap
       /\ \E k \in 1..Len(tree.kids[LastOf(i.src)]) :
            tree.attrs[tree.kids[LastOf(i.src)][k]] = Label

(***************************************************************************)
(* C2.  No TreeNode and no SearchMatch is emitted for a node whose         *)
(* bounding rectangle has width 0 or height 0.                             *)
(***************************************************************************)
C2_NoZeroAreaEmitted ==
  /\ \A i \in Emitted : ~ZeroArea(NodeAt(i.src))
  /\ \A m \in Found : ~ZeroArea(NodeAt(m.src))

(***************************************************************************)
(* C3.  The search from the desktop root runs if and only if the search    *)
(* of the active window produced no match (no active window included);     *)
(* otherwise the desktop root is neither acquired nor traversed and the    *)
(* result is exactly the matches of the active window.                     *)
(***************************************************************************)
C3_FallbackIffNoMatch ==
  (Searching /\ env.fg # "raise") =>
    /\ probe.rootCalls = 1 <=> probe.phase1 = <<>>
    /\ probe.visited2 # {} => (probe.phase1 = <<>> /\ env.root = "ok")
    /\ (probe.phase1 = <<>> /\ env.root = "ok") => <<Desktop>> \in probe.visited2
    /\ env.fg = "none" => probe.rootCalls = 1
    /\ \A i \in 1..Len(probe.phase1) : probe.phase1[i].src[1] = Window
    /\ probe.phase1 # <<>> =>
         /\ probe.rootCalls = 0
         /\ env.root = "unused"
         /\ probe.elements = probe.phase1
         /\ \A m \in Found : m.src[1] = Window

\* the active window holds a match, so does the other window, and the
\* desktop root is left alone
C3_Witness ==
  /\ op = "find_element"
  /\ args.text = <<"o", "K">> /\ args.control_type = "None"
  /\ tree.attrs[OtherChild] \in {Label, Btn}
  /\ probe.phase1 # <<>>
  /\ probe.rootCalls = 0
  /\ out = probe.phase1

(***************************************************************************)
(* C4.  Every emitted clickable point lies within the bounding rectangle   *)
(* of the node it was computed for: left <= x < left + width and           *)
(* top <= y < top + height.                                                *)
(***************************************************************************)
C4_ClickInsideRect ==
  /\ \A i \in Emitted :
       \A pt \in i.clickable_at : Inside(NodeAt(i.src).BoundingRectangle, pt)
  /\ \A m \in Found :
       \A pt \in m.click : Inside(NodeAt(m.src).BoundingRectangle, pt)

(***************************************************************************)
(* C5.  As claimed: a visited node (one whose reads of name and control    *)
(* type return) is in the output tree if and only if it is significant:    *)
(* a name, an Edit's value, or a remaining child.                          *)
(***************************************************************************)
C5_EmittedIffSignificant ==
  Extracting =>
    \A p \in probe.visited : ~Failing(NodeAt(p)) => (IsEmitted(p) <=> Significant(p))

(***************************************************************************)
(* C5, amended.  A visited node is in the output tree if and only if it    *)
(* was not seen to have a zero-area rectangle, the reads of its name and   *)
(* control type did not raise, and it is significant; no emitted node is   *)
(* an empty placeholder, and an unnamed interactive node with nothing but  *)
(* a clickable point is not emitted.                                       *)
(***************************************************************************)
C5_EmittedIffKeptAndSignificant ==
  Extracting =>
    /\ \A p \in probe.visited :
         IsEmitted(p) <=>
           (~SeenZero(NodeAt(p)) /\ ~Failing(NodeAt(p)) /\ Significant(p))
    /\ \A i \in Emitted : i.text # <<>> \/ i.value # <<>> \/ i.children # <<>>
    /\ \A i \in Emitted : i.src \in probe.visited

\* an unnamed Button without children is visited and left out, while an
\* unnamed node is emitted for the sake of its child alone
C5_Witness ==
  /\ Extracting
  /\ \E p \in probe.visited : NodeAt(p) = BareBtn /\ ~IsEmitted(p)
  /\ \E i \in Emitted : i.text = <<>> /\ i.value = <<>> /\ i.children # <<>>

(***************************************************************************)
(* C6.  find_element never returns an empty list: when both phases         *)
(* complete without a match the result is the single message entry naming  *)
(* the query, and not an error entry; when there is a match the list       *)
(* holds SearchMatch entries only.                                         *)
(***************************************************************************)
\* the node at path matches the query of the call
Hit(path) ==
  /\ ~Failing(NodeAt(path))
  /\ Contains(lower(args.text), lower(NodeAt(path).Name))
  /\ (args.control_type = "None" \/ NodeAt(path).ControlTypeName = args.control_type)

Completed == env.fg # "raise" /\ env.root # "raise"

C6_NeverEmpty ==
  op = "find_element" =>
    /\ out # <<>>
    /\ Completed =>
         \/ /\ out = <<NotFoundMessage(args.text)>>
            /\ \A p \in probe.visited \cup probe.visited2 : ~Hit(p)
         \/ /\ \A i \in 1..Len(out) : out[i].kind = "match"
            /\ \E p \in probe.visited \cup probe.visited2 : Hit(p)
    /\ ~Completed => (Len(out) = 1 /\ out[1].kind = "error")

\* both phases ran to their end and nothing matched
C6_Witness ==
  /\ op = "find_element"
  /\ env.fg = "window" /\ env.root = "ok"
  /\ probe.rootCalls = 1
  /\ <<Desktop, Window>> \in probe.visited2
  /\ out = <<NotFoundMessage(args.text)>>

(***************************************************************************)
(* C7.  click_element looks at the first entry only: it clicks once, at    *)
(* that entry's point, if and only if the first entry has coordinates;     *)
(* a first match without coordinates, or no match at all, gives no click   *)
(* and the "Could not find clickable element" answer naming the text.      *)
(***************************************************************************)
HasCoords(entry) == entry.kind = "match" /\ entry.click # {}

C7_FirstEntryOnly ==
  op = "click_element" =>
    /\ probe.elements # <<>>
    /\ HasCoords(probe.elements[1]) =>
         /\ clicks = <<The(probe.elements[1].click)>>
         /\ out.kind \in {"clicked", "click_error"}
         /\ out.kind = "clicked" <=> env.click = "ok"
         /\ out.kind = "clicked" =>
              /\ out.text = probe.elements[1].text
              /\ [x |-> out.x, y |-> out.y] = The(probe.elements[1].click)
    /\ ~HasCoords(probe.elements[1]) => clicks = <<>>
    /\ (probe.elements[1].kind \in {"match", "message"} /\ ~HasCoords(probe.elements[1])) =>
         out = [kind |-> "not_found", text |-> args.text]
    /\ probe.elements[1].kind = "error" => out.kind = "error"

\* the first match has no coordinates, a later one has, and nothing is clicked
C7_Witness ==
  /\ op = "click_element"
  /\ probe.elements[1].kind = "match"
  /\ probe.elements[1].click = {}
  /\ \E i \in 2..Len(probe.elements) : HasCoords(probe.elements[i])
  /\ clicks = <<>>
  /\ out.kind = "not_found"

(***************************************************************************)
(* C8.  Every read on a node is isolated: a read that raises does not end  *)
(* the processing of the node, so the children of every visited node that  *)
(* is within the depth limit (and, in the extractor, not seen as           *)
(* zero-area) are visited whenever they can be enumerated, and a node      *)
(* whose name cannot be read is emitted when a child of it would be.       *)
(***************************************************************************)
ChildPaths(path) ==
  {Append(path, tree.kids[LastOf(path)][i]) : i \in 1..Len(tree.kids[LastOf(path)])}

C8_ReadsIsolated ==
  /\ Extracting =>
       \A p \in probe.visited :
         (/\ Depth(p) < Min(args.max_depth, HardDepthCap)
          /\ ~SeenZero(NodeAt(p))
          /\ "GetChildren" \notin NodeAt(p).fails)
         => ChildPaths(p) \subseteq probe.visited
  /\ Searching =>
       \A p \in probe.visited :
         (Depth(p) < SearchDepthLimit /\ "GetChildren" \notin NodeAt(p).fails)
         => ChildPaths(p) \subseteq probe.visited

(***************************************************************************)
(* C9.  A node whose processing fails contributes nothing, and neither     *)
(* does its subtree; its siblings are processed and reported in their      *)
(* order, as if the node were not there; and the answer is well formed:    *)
(* only the reads made outside the walk give a top-level error.            *)
(***************************************************************************)
\* the tree without the nodes whose processing fails
Prune(t) ==
  [attrs |-> [n \in DOMAIN t.attrs |-> IF Failing(t.attrs[n]) THEN Filler ELSE t.attrs[n]],
   kids |-> [n \in DOMAIN t.kids |->
               IF Failing(t.attrs[n]) THEN <<>>
               ELSE SelectSeq(t.kids[n], LAMBDA k : ~Failing(t.attrs[k]))]]

\* no node on the path fails
Sound(path) == \A i \in 1..Len(path) : ~Failing(tree.attrs[path[i]])

C9_FailureIsolated ==
  /\ Extracting =>
       /\ (env.fg = "window" /\ env.title = "ok") <=> out.kind = "ok"
       /\ out.kind = "ok" =>
            out.content =
              get_element_info(Prune(tree), <<Window>>, 0,
                               Min(args.max_depth, HardDepthCap)).info
       /\ \A i \in Emitted : Sound(i.src)
  /\ op = "find_element" =>
       /\ Completed <=> out[1].kind # "error"
       /\ Completed =>
            out = find_element(Prune(tree), args.text, args.control_type,
                               env.fg, env.root).result
       /\ \A m \in Found : Sound(m.src)

\* the middle child of the window fails above a named node; the children
\* before and after it are both reported
C9_Witness ==
  /\ Extracting
  /\ Failing(tree.attrs[Chain(1)])
  /\ tree.attrs[Chain(2)] = Label
  /\ out.kind = "ok" /\ out.content # {}
  /\ Len(The(out.content).children) = 2
  /\ The(out.content).children[1].src = <<Window, FirstChild>>
  /\ The(out.content).children[2].src = <<Window, LastChild>>

(***************************************************************************)
(* C10.  The search of the active window visits and matches no node more   *)
(* than 6 levels below the window; the search from the desktop root starts *)
(* with the depth counter at 2 and so visits and matches no node more than *)
(* 4 levels below the root; every call of find_element returns, whatever   *)
(* the depth of the tree.                                                  *)
(***************************************************************************)
C10_SearchDepthBounded ==
  /\ Searching =>
       /\ \A p \in probe.visited : p[1] = Window /\ Depth(p) <= SearchDepthLimit
       /\ \A p \in probe.visited2 :
            p[1] = Desktop /\ Depth(p) <= SearchDepthLimit - RootStartDepth
       /\ \A m \in Found : m.src \in probe.visited \cup probe.visited2
  /\ op = "idle" => ENABLED FindElement

\* the fallback ran: it reached a node 4 levels below the desktop root and
\* not that node's child, which matches the query
C10_Witness ==
  /\ op = "find_element"
  /\ args.text = <<"o", "K">> /\ args.control_type = "None"
  /\ <<Desktop, Window, Chain(1), Chain(2), Chain(3)>> \in probe.visited2
  /\ tree.attrs[Chain(4)] = Label
  /\ out = <<NotFoundMessage(args.text)>>

====
